---- MODULE Spec2Model ----
(***************************************************************************)
(* State-machine model of the Custom OCR document loader node              *)
(* (class CustomOCR_DocumentLoader): init, postFilesToCustomApi,           *)
(* extractDocsFromCustomApi and extractDocs.                               *)
(*                                                                         *)
(* JavaScript strings are sequences of tokens (a token is a short run of   *)
(* characters: a word, a separator, a newline); objects are functions      *)
(* from property names to values; `undefined` and `null` are tagged        *)
(* records.  An `await` is a suspension point: each action runs one        *)
(* synchronous segment of init, from the resumption of one await to the    *)
(* next await, a return or a throw.                                        *)
(***************************************************************************)
EXTENDS Integers, Sequences, FiniteSets, TLC

VARIABLES
    this,   \* the instance fields written by init (lines 22-25)
    inv,    \* inv[i]: the activation of init for invocation i
    call    \* the pure function applied by the normalization specification

vars == <<this, inv, call>>

\* ---------------------------------------------------------------- bounds
MaxFiles == 2
MaxPages == 2

\* ------------------------------------------------------------- JS values
Undefined == [type |-> "undefined"]
Null == [type |-> "null"]
Str(s) == [type |-> "string", value |-> s]
Obj(f) == [type |-> "object", fields |-> f]

NL == "\n"
QUOTE == "\""

\* The two values of the `usage` option (lines 66-80).
PerPage == Str(<<"perPage">>)
PerFile == Str(<<"perFile">>)

\* JavaScript truthiness of the values the model passes around.
Truthy(v) ==
    CASE v.type = "undefined" -> FALSE
      [] v.type = "null" -> FALSE
      [] v.type = "string" -> v.value # <<>>
      [] OTHER -> TRUE

\* a || b
Or(a, b) == IF Truthy(a) THEN a ELSE b

\* { ...a, ...b } and Object.assign(a, b): keys of b win.
Merge(a, b) ==
    [k \in (DOMAIN a) \cup (DOMAIN b) |-> IF k \in DOMAIN b THEN b[k] ELSE a[k]]

\* a[key] = value
SetKey(a, key, value) ==
    [k \in (DOMAIN a) \cup {key} |-> IF k = key THEN value ELSE a[k]]

\* ------------------------------------------------------- string helpers
RECURSIVE Split(_, _)
\* String.prototype.split(sep): the pieces between every occurrence of sep.
Split(s, sep) ==
    IF \A n \in 1..Len(s) : s[n] # sep
    THEN <<s>>
    ELSE LET n == CHOOSE m \in 1..Len(s) :
                      s[m] = sep /\ \A j \in 1..(m - 1) : s[j] # sep
         IN  <<SubSeq(s, 1, n - 1)>> \o Split(SubSeq(s, n + 1, Len(s)), sep)

RECURSIVE Join(_, _)
\* Array.prototype.join(sep)
Join(parts, sep) ==
    IF Len(parts) = 0 THEN <<>>
    ELSE IF Len(parts) = 1 THEN parts[1]
    ELSE parts[1] \o sep \o Join(Tail(parts), sep)

LowerToken(t) == IF t = ".PDF" THEN ".pdf" ELSE t
ToLowerCase(s) == [n \in 1..Len(s) |-> LowerToken(s[n])]

EndsWith(s, suffix) ==
    /\ Len(s) >= Len(suffix)
    /\ SubSeq(s, Len(s) - Len(suffix) + 1, Len(s)) = suffix

\* ----------------------------------------------- extractDocsFromCustomApi
Document(pageContent, metadata) ==
    [pageContent |-> pageContent, metadata |-> metadata]

\* item.<name>, undefined when the property is absent
Prop(item, name) ==
    IF name \in DOMAIN item.fields THEN item.fields[name] ELSE Undefined

\* typeof item === 'string' ? item : item.pageContent || item.text || item.content || ''
\* (only evaluated for entries that are not null: reading a property of null throws)
EntryContent(item) ==
    IF item.type = "string" THEN item.value
    ELSE LET v == Or(Or(Or(Prop(item, "pageContent"), Prop(item, "text")),
                        Prop(item, "content")), Str(<<>>))
         IN  v.value

\* PerFilePiece with the marker numbered from the 0-based index.
PerFilePieceZeroBased(item, index) ==
    IF index = 0 THEN EntryContent(item)
    ELSE <<"<PAGE_BREAK>", ToString(index), "</PAGE_BREAK>", NL, NL>>
             \o EntryContent(item)

\* The callback of result.map in the perFile branch (lines 298-301).
PerFilePiece(item, index) ==
    IF index = 0 THEN EntryContent(item)
    ELSE <<"<PAGE_BREAK>", ToString(index + 1), "</PAGE_BREAK>", NL, NL>>
             \o EntryContent(item)

BaseMetadata(filename) == [source |-> filename, custom_ocr |-> TRUE]

\* typeof x === 'object' && x.metadata  (x may be undefined when the array is empty)
HasMetadata(x) ==
    /\ x.type = "object"
    /\ "metadata" \in DOMAIN x.fields

\* lines 304-312
PerFileMetadata(result, filename) ==
    IF Len(result) > 0 /\ HasMetadata(result[1])
    THEN Merge(BaseMetadata(filename), result[1].fields.metadata)
    ELSE BaseMetadata(filename)

\* PageLoc with the loc object of the entry's own metadata kept when there is one.
PageLocKeepsApiLoc(item, index, pageContent) ==
    IF HasMetadata(item) /\ "loc" \in DOMAIN item.fields.metadata
    THEN item.fields.metadata.loc
    ELSE IF item.type = "object" /\ "lines" \in DOMAIN item.fields
    THEN [pageNumber |-> index + 1, lines |-> item.fields.lines]
    ELSE IF HasMetadata(item) /\ "lines" \in DOMAIN item.fields.metadata
    THEN [pageNumber |-> index + 1, lines |-> item.fields.metadata.lines]
    ELSE IF pageContent # <<>>
    THEN [pageNumber |-> index + 1,
          lines |-> [from |-> 1, to |-> Len(Split(pageContent, NL))]]
    ELSE [pageNumber |-> index + 1]

\* lines 330-350: the loc object of one page of a PDF
PageLoc(item, index, pageContent) ==
    IF item.type = "object" /\ "lines" \in DOMAIN item.fields
    THEN [pageNumber |-> index + 1, lines |-> item.fields.lines]
    ELSE IF HasMetadata(item) /\ "lines" \in DOMAIN item.fields.metadata
    THEN [pageNumber |-> index + 1, lines |-> item.fields.metadata.lines]
    ELSE IF pageContent # <<>>
    THEN [pageNumber |-> index + 1,
          lines |-> [from |-> 1, to |-> Len(Split(pageContent, NL))]]
    ELSE [pageNumber |-> index + 1]

\* The callback of result.forEach in the perPage branch (lines 317-353).
PerPageDocument(item, index, filename, isPdf) ==
    LET pageContent == EntryContent(item)
        base == IF HasMetadata(item)
                THEN Merge(BaseMetadata(filename), item.fields.metadata)
                ELSE BaseMetadata(filename)
        metadata == IF isPdf
                    THEN SetKey(base, "loc", PageLoc(item, index, pageContent))
                    ELSE base
    IN  Document(pageContent, metadata)

IsPdf(filename) == EndsWith(ToLowerCase(filename), <<".pdf">>)

\* extractDocsFromCustomApi returning no document for an empty answer.
extractDocsSkippingEmpty(usage, result, filename) ==
    IF \E n \in 1..Len(result) : result[n].type = "null"
    THEN [ok |-> FALSE, error |-> <<"TypeError">>]
    ELSE IF usage = PerFile
    THEN [ok |-> TRUE,
          docs |-> IF Len(result) = 0 THEN <<>>
                   ELSE << Document(
                        Join([n \in 1..Len(result) |-> PerFilePiece(result[n], n - 1)],
                             <<NL, NL>>),
                        PerFileMetadata(result, filename)) >>]
    ELSE [ok |-> TRUE,
          docs |-> [n \in 1..Len(result) |->
                        PerPageDocument(result[n], n - 1, filename, IsPdf(filename))]]

\* extractDocsFromCustomApi(result, filename), with this.usage passed as `usage`.
\* Reading a property of a null entry throws a TypeError.
extractDocsFromCustomApi(usage, result, filename) ==
    IF \E n \in 1..Len(result) : result[n].type = "null"
    THEN [ok |-> FALSE, error |-> <<"TypeError">>]
    ELSE IF usage = PerFile
    THEN [ok |-> TRUE,
          docs |-> << Document(
                        Join([n \in 1..Len(result) |-> PerFilePiece(result[n], n - 1)],
                             <<NL, NL>>),
                        PerFileMetadata(result, filename)) >>]
    ELSE [ok |-> TRUE,
          docs |-> [n \in 1..Len(result) |->
                        PerPageDocument(result[n], n - 1, filename, IsPdf(filename))]]

\* ------------------------------------------------------------ JSON.parse
RECURSIVE JsonStrings(_)
\* The string literals of a JSON array body: "s1","s2",...  (ok = FALSE: SyntaxError)
JsonStrings(s) ==
    IF Len(s) < 2 \/ s[1] # QUOTE THEN [ok |-> FALSE, value |-> <<>>]
    ELSE IF \A n \in 2..Len(s) : s[n] # QUOTE THEN [ok |-> FALSE, value |-> <<>>]
    ELSE LET close == CHOOSE m \in 2..Len(s) :
                          s[m] = QUOTE /\ \A j \in 2..(m - 1) : s[j] # QUOTE
             lit == SubSeq(s, 2, close - 1)
         IN  IF close = Len(s) THEN [ok |-> TRUE, value |-> <<lit>>]
             ELSE IF s[close + 1] # "," THEN [ok |-> FALSE, value |-> <<>>]
             ELSE LET rest == JsonStrings(SubSeq(s, close + 2, Len(s)))
                  IN  [ok |-> rest.ok, value |-> <<lit>> \o rest.value]

\* JSON.parse of a text that starts with '[' and ends with ']'.
JsonParseArray(s) ==
    IF Len(s) = 2 THEN [ok |-> TRUE, value |-> <<>>]
    ELSE JsonStrings(SubSeq(s, 2, Len(s) - 1))

RECURSIVE JsonMembers(_)
\* The members of a JSON object body: "k1":"v1","k2":"v2",...
JsonMembers(s) ==
    IF Len(s) < 7 THEN [ok |-> FALSE, value |-> <<>>]
    ELSE IF ~(/\ s[1] = QUOTE /\ s[3] = QUOTE /\ s[4] = ":"
              /\ s[5] = QUOTE /\ s[7] = QUOTE)
    THEN [ok |-> FALSE, value |-> <<>>]
    ELSE LET member == (s[2] :> <<s[6]>>)
         IN  IF Len(s) = 7 THEN [ok |-> TRUE, value |-> member]
             ELSE IF s[8] # "," THEN [ok |-> FALSE, value |-> <<>>]
             ELSE LET rest == JsonMembers(SubSeq(s, 9, Len(s)))
                  IN  [ok |-> rest.ok,
                       value |-> IF rest.ok THEN Merge(member, rest.value) ELSE <<>>]

\* JSON.parse of the text of a flat object with string values.
JsonParseObject(s) ==
    IF Len(s) < 2 \/ s[1] # "{" \/ s[Len(s)] # "}"
    THEN [ok |-> FALSE, value |-> <<>>]
    ELSE IF Len(s) = 2 THEN [ok |-> TRUE, value |-> <<>>]
    ELSE JsonMembers(SubSeq(s, 2, Len(s) - 1))

\* ------------------------------------------------- Buffer.from(s, 'base64')
\* The base64 digits of a token (characters outside the alphabet are skipped).
B64Digits(t) ==
    CASE t = "Q" -> <<16>>
      [] t = "U" -> <<20>>
      [] t = "J" -> <<9>>
      [] t = "D" -> <<3>>
      [] t = "data" -> <<29, 26, 45, 26>>
      [] t = "x/y" -> <<49, 63, 50>>
      [] t = "base64" -> <<27, 26, 44, 30, 58, 56>>
      [] t = "filename" -> <<31, 34, 37, 30, 39, 26, 38, 30>>
      [] t = "a" -> <<26>>
      [] t = ".pdf" -> <<41, 29, 31>>
      [] OTHER -> <<>>

RECURSIVE B64DigitsOf(_)
\* The digits of a text up to its first '=' (padding ends the data).
B64DigitsOf(s) ==
    IF s = <<>> \/ Head(s) = "=" THEN <<>>
    ELSE B64Digits(Head(s)) \o B64DigitsOf(Tail(s))

Pow2(n) == IF n = 0 THEN 1 ELSE IF n = 2 THEN 4 ELSE 16

\* Every 4 digits give 3 bytes; 2 trailing digits give 1 byte, 3 give 2.
Base64Decode(s) ==
    LET v == B64DigitsOf(s)
        nBytes == (6 * Len(v)) \div 8
        byte(j) == LET idx == ((8 * j) \div 6) + 1
                       off == (8 * j) % 6
                       window == v[idx] * 64 + v[idx + 1]
                   IN  (window \div Pow2(4 - off)) % 256
    IN  [n \in 1..nBytes |-> byte(n - 1)]

\* ------------------------------------------------------- the collaborators
\* What the file storage holds under any key (getFileFromStorage's bytes).
StoredBytes == <<37, 80, 68, 70>>

\* One document of the local PDF engine (PDFLoader.load): page n of the blob.
LoadedDocument(n) ==
    Document(<<"pdf-text", ToString(n), NL, "more">>,
             [source |-> <<"blob">>, loc |-> [pageNumber |-> n]])

\* What PDFLoader.load may return: with splitPages: false (perFile) at most one
\* document for the whole file, otherwise one per page that carries text.
LoaderResults(usage) ==
    { [n \in 1..m |-> LoadedDocument(n)] :
        m \in 0..(IF usage = PerFile THEN 1 ELSE MaxPages) }

RECURSIVE Chunks(_, _)
\* The text of one document cut into runs of `size` tokens, in reading order.
Chunks(text, size) ==
    IF Len(text) = 0 THEN <<>>
    ELSE IF Len(text) <= size THEN <<text>>
    ELSE <<SubSeq(text, 1, size)>> \o Chunks(SubSeq(text, size + 1, Len(text)), size)

\* textSplitter.splitDocuments on one document: each chunk keeps its metadata.
SplitOne(splitter, doc) ==
    LET c == Chunks(doc.pageContent, splitter.fields.chunkSize)
    IN  [n \in 1..Len(c) |-> Document(c[n], doc.metadata)]

RECURSIVE splitDocuments(_, _)
\* textSplitter.splitDocuments(docs): the chunks of every document, in order.
splitDocuments(splitter, docs) ==
    IF Len(docs) = 0 THEN <<>>
    ELSE SplitOne(splitter, Head(docs)) \o splitDocuments(splitter, Tail(docs))

\* handleEscapeCharacters(text, false): escaped sequences become the characters.
handleEscapeCharacters(text) ==
    [n \in 1..Len(text) |->
        IF text[n] = "\\n" THEN NL ELSE IF text[n] = "\\t" THEN "\t" ELSE text[n]]

\* getCredentialParam('customOcrApiKey', credentialData, nodeData)
getCredentialParam(nodeData) == nodeData.credentialKey

\* ------------------------------------------------------ postFilesToCustomApi
RemoteOcrError(message) ==
    <<"Failed to process file with Custom OCR API: ">> \o message

\* postFilesToCustomApi with the normalization outside the try block.
postFilesNormalizingUncaught(usage, response, filename) ==
    IF response.kind = "throw"
    THEN [ok |-> FALSE, error |-> RemoteOcrError(response.message)]
    ELSE IF ~response.ok
    THEN [ok |-> FALSE,
          error |-> RemoteOcrError(
              <<"Custom OCR API request failed with status ", response.status, ": ">>
                  \o response.text)]
    ELSE IF response.json.kind = "SyntaxError"
    THEN [ok |-> FALSE, error |-> RemoteOcrError(<<"Unexpected token">>)]
    ELSE IF response.json.kind # "array"
    THEN [ok |-> FALSE,
          error |-> RemoteOcrError(
              <<"Invalid response format from Custom OCR API: expected array of pages">>)]
    ELSE extractDocsFromCustomApi(usage, response.json.value, filename)

\* postFilesToCustomApi from the arrival of the HTTP response (lines 263-282);
\* `usage` is this.usage at that moment.
postFilesToCustomApi(usage, response, filename) ==
    IF response.kind = "throw"
    THEN [ok |-> FALSE, error |-> RemoteOcrError(response.message)]
    ELSE IF ~response.ok
    THEN [ok |-> FALSE,
          error |-> RemoteOcrError(
              <<"Custom OCR API request failed with status ", response.status, ": ">>
                  \o response.text)]
    ELSE IF response.json.kind = "SyntaxError"
    THEN [ok |-> FALSE, error |-> RemoteOcrError(<<"Unexpected token">>)]
    ELSE IF response.json.kind # "array"
    THEN [ok |-> FALSE,
          error |-> RemoteOcrError(
              <<"Invalid response format from Custom OCR API: expected array of pages">>)]
    ELSE LET r == extractDocsFromCustomApi(usage, response.json.value, filename)
         IN  IF r.ok THEN r
             ELSE [ok |-> FALSE, error |-> RemoteOcrError(r.error)]

\* ---------------------------------------------------------------- init
Invs == {1, 2}

UploadFields ==
    <<"processFile", "txtFile", "yamlFile", "docxFile",
      "jsonlinesFile", "csvFile", "jsonFile", "fileObject">>

RECURSIVE FirstTruthy(_, _)
\* inputs.processFile || inputs.txtFile || ... || inputs.fileObject (lines 116-124)
FirstTruthy(upload, n) ==
    IF n = Len(UploadFields) THEN upload[UploadFields[n]]
    ELSE Or(upload[UploadFields[n]], FirstTruthy(upload, n + 1))

NoData ==
    [textSplitter |-> Undefined, customOcrApiUrl |-> Undefined, usage |-> Undefined,
     credentialKey |-> Undefined, upload |-> <<>>, metadata |-> Undefined,
     output |-> <<>>]

\* An activation that has not been called.
Idle ==
    [pc |-> "idle", nodeData |-> NoData, usage |-> Undefined, storage |-> FALSE,
     files |-> <<>>, pos |-> 0, filename |-> <<>>, splitter |-> Undefined,
     pending |-> <<>>, docs |-> <<>>, ret |-> Undefined,
     \* history, for the properties only:
     log |-> <<>>, raw |-> <<>>, origin |-> <<>>, merged |-> <<>>,
     answer |-> Undefined]

Event(op, file, usage) == [op |-> op, file |-> file, usage |-> usage]

\* Throw that swallows the error and returns what was accumulated.
ThrowReturnsPartial(r, message) ==
    [r EXCEPT !.pc = "returned", !.ret = [kind |-> "document", value |-> r.docs]]

\* throw new Error(message): the activation ends, nothing is returned.
Throw(r, message) ==
    [r EXCEPT !.pc = "rejected", !.ret = [kind |-> "error", message |-> message]]

\* Push that puts the new documents in front (unshift).
PushFront(r, more, from) ==
    [r EXCEPT !.docs = more \o r.docs,
              !.origin = from \o r.origin,
              !.pending = <<>>,
              !.log = Append(r.log, Event("completed", r.pos, Undefined))]

\* docs.push(...more); `from` names, for each new document, the file, the unit of
\* the extraction response and the chunk it comes from.
Push(r, more, from) ==
    [r EXCEPT !.docs = r.docs \o more,
              !.origin = r.origin \o from,
              !.pending = <<>>,
              !.log = Append(r.log, Event("completed", r.pos, Undefined))]

\* Overlay with the document's own keys winning over the overlay's.
OverlayUnderDocument(docs, parsedMetadata) ==
    [n \in 1..Len(docs) |->
        [docs[n] EXCEPT !.metadata = Merge(parsedMetadata, docs[n].metadata)]]

\* lines 197-206: the overlay, on every document.
Overlay(docs, parsedMetadata) ==
    [n \in 1..Len(docs) |->
        [docs[n] EXCEPT !.metadata = Merge(docs[n].metadata, parsedMetadata)]]

\* lines 208-216
Output(r, docs) ==
    IF r.nodeData.output = <<"document">>
    THEN [r EXCEPT !.pc = "returned", !.docs = docs,
                   !.ret = [kind |-> "document", value |-> docs]]
    ELSE LET finaltext == Join([n \in 1..Len(docs) |-> docs[n].pageContent \o <<NL>>],
                               <<>>)
         IN  [r EXCEPT !.pc = "returned", !.docs = docs,
                       !.ret = [kind |-> "text",
                                value |-> handleEscapeCharacters(finaltext)]]

\* lines 197-216: after the loop.
Finish(r) ==
    LET metadata == r.nodeData.metadata
        kept == [r EXCEPT !.merged = r.docs]
    IN  IF ~Truthy(metadata) THEN Output(kept, r.docs)
        ELSE IF metadata.type = "object"
        THEN Output(kept, Overlay(r.docs, metadata.fields))
        ELSE LET parsed == JsonParseObject(metadata.value)
             IN  IF parsed.ok THEN Output(kept, Overlay(r.docs, parsed.value))
                 ELSE Throw(r, <<"SyntaxError">>)

\* lines 152-163 and 179-190 up to the await: the strategy for the current file.
Route(t, r) ==
    IF Truthy(t.customOcrApiUrl) /\ Truthy(t.customOcrApiKey)
    THEN [r EXCEPT !.pc = "postFilesToCustomApi",
                   !.log = Append(r.log, Event("postFilesToCustomApi", r.pos, Undefined))]
    ELSE [r EXCEPT !.pc = "extractDocs",
                   !.splitter = t.textSplitter,
                   !.log = Append(r.log, Event("extractDocs", r.pos, r.usage))]

\* InlineFile taking the parts from the front (shift) instead of the back (pop).
InlineFileFromFront(file) ==
    LET splitDataURI == Split(file, ",")
        named == Split(splitDataURI[1], ":")
        filename == IF Len(named) >= 2 THEN named[2] ELSE <<>>
        payload == IF Len(splitDataURI) >= 2 THEN splitDataURI[2] ELSE <<>>
    IN  [filename |-> filename, bytes |-> Base64Decode(payload)]

\* lines 174-176: filename and bytes of one inline element.
InlineFile(file) ==
    LET splitDataURI == Split(file, ",")
        last == splitDataURI[Len(splitDataURI)]
        named == Split(last, ":")
        filename == IF Len(named) >= 2 THEN named[2] ELSE <<>>
        payload == IF Len(splitDataURI) >= 2
                   THEN splitDataURI[Len(splitDataURI) - 1] ELSE <<>>
    IN  [filename |-> filename, bytes |-> Base64Decode(payload)]

\* The for loops (lines 146-148, 172-176) from element `from` to the next await.
Loop(t, r, from) ==
    IF \A k \in from..Len(r.files) : r.files[k] = <<>>
    THEN Finish(r)
    ELSE LET k == CHOOSE m \in from..Len(r.files) :
                      r.files[m] # <<>> /\ \A j \in from..(m - 1) : r.files[j] = <<>>
         IN  IF r.storage
             THEN [r EXCEPT !.pc = "getFileFromStorage", !.pos = k,
                            !.filename = r.files[k],
                            !.log = Append(r.log, Event("getFileFromStorage", k, Undefined))]
             ELSE LET f == InlineFile(r.files[k])
                  IN  Route(t, [r EXCEPT !.pos = k, !.filename = f.filename,
                                         !.raw = Append(r.raw, f)])

\* lines 166-170: the elements of an inline upload value.
InlineFiles(fileBase64) ==
    IF Head(fileBase64) = "[" /\ fileBase64[Len(fileBase64)] = "]"
    THEN JsonParseArray(fileBase64)
    ELSE [ok |-> TRUE, value |-> <<fileBase64>>]

\* lines 137-142: the keys of a storage reference.
StorageFiles(fileBase64) ==
    LET fileName == Tail(fileBase64)
    IN  IF fileName # <<>> /\ Head(fileName) = "[" /\ fileName[Len(fileName)] = "]"
        THEN JsonParseArray(fileName)
        ELSE [ok |-> TRUE, value |-> <<fileName>>]

\* Resolve without the check that an upload value is present.
ResolveUnchecked(t, r) ==
    LET fileBase64 == FirstTruthy(r.nodeData.upload, 1)
        started == [r EXCEPT !.usage = t.usage]
    IN  IF ~Truthy(fileBase64) THEN Finish(started)
        ELSE LET storage == Head(fileBase64.value) = "FILE-STORAGE::"
                 files == IF storage THEN StorageFiles(fileBase64.value)
                          ELSE InlineFiles(fileBase64.value)
             IN  IF ~files.ok THEN Throw(started, <<"SyntaxError">>)
                 ELSE Loop(t, [started EXCEPT !.storage = storage,
                                              !.files = files.value], 1)

\* lines 115-195 once the credential is known, up to the first await.
Resolve(t, r) ==
    LET fileBase64 == FirstTruthy(r.nodeData.upload, 1)
        started == [r EXCEPT !.usage = t.usage]
    IN  IF ~Truthy(fileBase64) THEN Throw(started, <<"File upload is required">>)
        ELSE LET storage == Head(fileBase64.value) = "FILE-STORAGE::"
                 files == IF storage THEN StorageFiles(fileBase64.value)
                          ELSE InlineFiles(fileBase64.value)
             IN  IF ~files.ok THEN Throw(started, <<"SyntaxError">>)
                 ELSE Loop(t, [started EXCEPT !.storage = storage,
                                              !.files = files.value], 1)

\* ------------------------------------------------------------- the inputs
SeqsUpTo(S, n) == UNION { [1..m -> S] : m \in 0..n }

\* JSON.stringify of a list of strings
JsonArray(items) ==
    <<"[">> \o Join([n \in 1..Len(items) |-> <<QUOTE>> \o items[n] \o <<QUOTE>>], <<",">>)
            \o <<"]">>

FileKey == <<"a", ".pdf">>

\* data:<media type>;base64,<payload>,filename:<name>  (what the host's upload makes)
NamedDataUri ==
    <<"data", ":", "x/y", ";", "base64", ",", "Q", "U", "J", "D", ",",
      "filename", ":", "a", ".pdf">>
\* <media type prefix>,<payload>
PlainDataUri == <<"data", ":", "x/y", ";", "base64", ",", "Q", "Q", "=", "=">>
\* no comma at all
BarePayload == <<"Q", "U", "J", "D">>

StorageUploads ==
    { <<"FILE-STORAGE::">> \o JsonArray(l) : l \in SeqsUpTo({<<>>, FileKey}, MaxFiles) }
        \cup { <<"FILE-STORAGE::">>, <<"FILE-STORAGE::">> \o FileKey,
               <<"FILE-STORAGE::", "[", "a", "]">> }

InlineUploads ==
    { JsonArray(l) : l \in SeqsUpTo({<<>>, NamedDataUri, PlainDataUri}, MaxFiles) }
        \cup { NamedDataUri, PlainDataUri, BarePayload, <<"[", "a", "]">> }

FieldNames == { UploadFields[n] : n \in 1..Len(UploadFields) }

OnlyField(g, v, other) == [f \in FieldNames |-> IF f = g THEN v ELSE other]

\* The upload fields of nodeData.inputs: none set, all empty, one value under
\* processFile, a value under each other field, and two fields set at once.
UploadInputs ==
    { [f \in FieldNames |-> Undefined], [f \in FieldNames |-> Str(<<>>)] }
        \cup { OnlyField("processFile", Str(v), Undefined) :
                 v \in StorageUploads \cup InlineUploads }
        \cup { OnlyField(g, Str(<<"FILE-STORAGE::">> \o FileKey), Str(<<>>)) :
                 g \in FieldNames \ {"processFile"} }
        \cup { [OnlyField("fileObject", Str(BarePayload), Undefined)
                   EXCEPT !["csvFile"] = Str(<<"FILE-STORAGE::">> \o FileKey)] }

OverlayObject == [tag |-> <<"x">>, source |-> <<"mine">>]

Metadatas ==
    { Undefined, Obj(OverlayObject),
      Str(<<"{", QUOTE, "tag", QUOTE, ":", QUOTE, "x", QUOTE, "}">>),
      Str(<<"{", "tag", "}">>) }

Splitter == Obj([chunkSize |-> 2])

Configs ==
    [textSplitter : {Undefined, Splitter},
     customOcrApiUrl : {Undefined, Str(<<"http://ocr">>)},
     usage : {PerPage, PerFile},
     credentialKey : {Undefined, Str(<<"key">>)}]

NodeData(c, upload, metadata, output) ==
    [textSplitter |-> c.textSplitter, customOcrApiUrl |-> c.customOcrApiUrl,
     usage |-> c.usage, credentialKey |-> c.credentialKey,
     upload |-> upload, metadata |-> metadata, output |-> output]

NodeDatas ==
    { NodeData(c, u, m, o) :
        c \in Configs, u \in UploadInputs, m \in Metadatas,
        o \in {<<"document">>, <<"text">>} }

\* The invocations that overlap on one instance: every configuration on one
\* stored file, and the configurations without a text-splitter on two.
OverlappingNodeDatas ==
    { NodeData(c, OnlyField("processFile", Str(<<"FILE-STORAGE::">> \o FileKey), Undefined),
               Undefined, <<"document">>) : c \in Configs }
        \cup { NodeData(c, OnlyField("processFile",
                                     Str(<<"FILE-STORAGE::">> \o JsonArray(<<FileKey, FileKey>>)),
                                     Undefined),
                        Undefined, <<"document">>) :
                 c \in { d \in Configs : d.textSplitter = Undefined } }

PageText == <<"one", NL, "two">>

\* What the OCR endpoint may answer.
Responses ==
    { [kind |-> "throw", message |-> <<"ECONNREFUSED">>],
      [kind |-> "http", ok |-> FALSE, status |-> "500", text |-> <<"boom">>],
      [kind |-> "http", ok |-> TRUE, json |-> [kind |-> "SyntaxError"]],
      [kind |-> "http", ok |-> TRUE, json |-> [kind |-> "object"]] }
        \cup { [kind |-> "http", ok |-> TRUE, json |-> [kind |-> "array", value |-> a]] :
                 a \in SeqsUpTo({Str(PageText), Null}, MaxPages) }

\* ------------------------------------------------------------ the actions
Fresh == [textSplitter |-> Undefined, customOcrApiUrl |-> Undefined,
          usage |-> Undefined, customOcrApiKey |-> Undefined]

\* init is called with one of `nodeDatas` (lines 106-112, up to the await of
\* getCredentialData).
Invoke(i, nodeDatas) ==
    /\ inv[i].pc = "idle"
    /\ \E nodeData \in nodeDatas :
         /\ this' = [this EXCEPT !.textSplitter = nodeData.textSplitter,
                                 !.customOcrApiUrl = nodeData.customOcrApiUrl,
                                 !.usage = nodeData.usage]
         /\ inv' = [inv EXCEPT ![i] = [Idle EXCEPT !.pc = "getCredentialData",
                                                   !.nodeData = nodeData]]
    /\ UNCHANGED call

\* getCredentialData resolves (lines 113-195, up to the next await).
CredentialReturns(i) ==
    /\ inv[i].pc = "getCredentialData"
    /\ this' = [this EXCEPT !.customOcrApiKey = getCredentialParam(inv[i].nodeData)]
    /\ inv' = [inv EXCEPT ![i] = Resolve(this', inv[i])]
    /\ UNCHANGED call

\* getFileFromStorage resolves or rejects (lines 148-163).
StorageReturns(i) ==
    /\ inv[i].pc = "getFileFromStorage"
    /\ \E found \in BOOLEAN :
         inv' = [inv EXCEPT ![i] =
                    IF found
                    THEN Route(this, [inv[i] EXCEPT !.raw =
                             Append(inv[i].raw, [filename |-> inv[i].filename,
                                                 bytes |-> StoredBytes])])
                    ELSE Throw(inv[i], <<"File not found">>)]
    /\ UNCHANGED <<this, call>>

\* The step of init after one file's documents are complete: push and go on.
Continue(r, docs) ==
    Loop(this, Push(r, docs, [n \in 1..Len(docs) |-> [file |-> r.pos, unit |-> n, chunk |-> 1]]),
         r.pos + 1)

\* The OCR endpoint answers, or the request fails (lines 257-282, 153-159, 180-186).
OcrResponds(i) ==
    /\ inv[i].pc = "postFilesToCustomApi"
    /\ \E response \in Responses :
         LET r == inv[i]
             customDocs == postFilesToCustomApi(this.usage, response, r.filename)
             normalized == response.kind = "http" /\ response.ok
                              /\ response.json.kind = "array"
             logged == [r EXCEPT !.answer = response,
                                 !.log = IF normalized
                                         THEN Append(r.log, Event("extractDocsFromCustomApi",
                                                                  r.pos, this.usage))
                                         ELSE r.log]
         IN  inv' = [inv EXCEPT ![i] =
                        IF ~customDocs.ok THEN Throw(logged, customDocs.error)
                        ELSE IF Truthy(this.textSplitter)
                        THEN [logged EXCEPT !.pc = "splitDocuments",
                                            !.splitter = this.textSplitter,
                                            !.pending = customDocs.docs,
                                            !.log = Append(logged.log,
                                                Event("splitDocuments", r.pos, Undefined))]
                        ELSE Continue(logged, customDocs.docs)]
    /\ UNCHANGED <<this, call>>

\* The local PDF engine's load resolves or rejects (extractDocs, lines 359-390).
LoaderReturns(i) ==
    /\ inv[i].pc = "extractDocs"
    /\ \/ inv' = [inv EXCEPT ![i] = Throw(inv[i], <<"Invalid PDF structure">>)]
       \/ \E loaded \in LoaderResults(inv[i].usage) :
            inv' = [inv EXCEPT ![i] =
                       IF Truthy(inv[i].splitter)
                       THEN [inv[i] EXCEPT !.pc = "splitDocuments", !.pending = loaded,
                                           !.log = Append(inv[i].log,
                                               Event("splitDocuments", inv[i].pos, Undefined))]
                       ELSE Continue(inv[i], loaded)]
    /\ UNCHANGED <<this, call>>

\* For each chunk splitDocuments returns: the unit it is cut from and its rank.
ChunkOrigins(splitter, docs, file) ==
    LET counts == [n \in 1..Len(docs) |-> Len(SplitOne(splitter, docs[n]))]
        one(n) == [c \in 1..counts[n] |-> [file |-> file, unit |-> n, chunk |-> c]]
    IN  Join([n \in 1..Len(docs) |-> one(n)], <<>>)

\* textSplitter.splitDocuments resolves or rejects (lines 155-156, 370-371, 384-385).
SplitterReturns(i) ==
    /\ inv[i].pc = "splitDocuments"
    /\ \/ inv' = [inv EXCEPT ![i] = Throw(inv[i], <<"Cannot split">>)]
       \/ LET r == inv[i]
              splittedDocs == splitDocuments(r.splitter, r.pending)
          IN  inv' = [inv EXCEPT ![i] =
                         Loop(this, Push(r, splittedDocs,
                                         ChunkOrigins(r.splitter, r.pending, r.pos)),
                              r.pos + 1)]
    /\ UNCHANGED <<this, call>>

NoCall == [fn |-> "none"]

Init ==
    /\ this = Fresh
    /\ inv = [i \in Invs |-> Idle]
    /\ call = NoCall

\* One invocation of init on a fresh instance.
Next ==
    \/ Invoke(1, NodeDatas)
    \/ CredentialReturns(1)
    \/ StorageReturns(1)
    \/ OcrResponds(1)
    \/ LoaderReturns(1)
    \/ SplitterReturns(1)

Spec == Init /\ [][Next]_vars

\* Two invocations of init on the same instance, overlapping at their awaits.
NextOverlapping ==
    \/ \E i \in Invs : Invoke(i, OverlappingNodeDatas)
    \/ \E i \in Invs : CredentialReturns(i)
    \/ \E i \in Invs : StorageReturns(i)
    \/ \E i \in Invs : OcrResponds(i)
    \/ \E i \in Invs : LoaderReturns(i)
    \/ \E i \in Invs : SplitterReturns(i)

SpecOverlapping == Init /\ [][NextOverlapping]_vars

\* ------------------------------------- the normalization, applied on its own
Lines(a, b) == [from |-> a, to |-> b]

\* The entries an OCR answer may hold: plain strings, objects with one of the
\* text fields, with `lines`, with `metadata`, and null.
Entries ==
    { Str(<<"page", "one">>), Str(PageText), Str(<<>>), Null,
      Obj([pageContent |-> Str(<<>>), text |-> Str(<<"from", NL, "text">>)]),
      Obj([content |-> Str(<<"c">>), lines |-> Lines(3, 7)]),
      Obj([text |-> Str(<<"t">>),
           metadata |-> [lines |-> Lines(2, 4), author |-> <<"api">>]]),
      Obj([pageContent |-> Str(<<"p">>),
           metadata |-> [loc |-> [pageNumber |-> 9], source |-> <<"api">>]]),
      Obj([metadata |-> [author |-> <<"api">>]]) }

Filenames == { <<"doc", ".pdf">>, <<"scan", ".PDF">>, <<"img", ".png">> }

InitNormalize ==
    /\ this \in { [Fresh EXCEPT !.usage = u] : u \in {PerPage, PerFile} }
    /\ inv = [i \in Invs |-> Idle]
    /\ call \in { [fn |-> "extractDocsFromCustomApi", result |-> a, filename |-> f,
                   returned |-> FALSE, out |-> Undefined] :
                     a \in SeqsUpTo(Entries, MaxPages), f \in Filenames }

\* extractDocsFromCustomApi(result, filename) is applied.
Normalize ==
    /\ call.fn = "extractDocsFromCustomApi"
    /\ ~call.returned
    /\ call' = [call EXCEPT !.returned = TRUE,
                            !.out = extractDocsFromCustomApi(this.usage, call.result,
                                                             call.filename)]
    /\ UNCHANGED <<this, inv>>

NextNormalize == Normalize

SpecNormalize == InitNormalize /\ [][NextNormalize]_vars

\* ====================================================================
\* Properties
\* ====================================================================

\* The text of an OCR entry, as the specification words it: the entry itself
\* when it is a string, else the first non-empty of pageContent, text, content.
TextOf(e) ==
    IF e.type = "string" THEN e.value
    ELSE LET present == { f \in {"pageContent", "text", "content"} :
                            f \in DOMAIN e.fields /\ e.fields[f].value # <<>> }
         IN  IF "pageContent" \in present THEN e.fields.pageContent.value
             ELSE IF "text" \in present THEN e.fields.text.value
             ELSE IF "content" \in present THEN e.fields.content.value
             ELSE <<>>

NamedPdf(filename) == filename # <<>> /\ filename[Len(filename)] \in {".pdf", ".PDF"}

LineCount(text) == Cardinality({ n \in 1..Len(text) : text[n] = NL }) + 1

EntryLines(e) ==
    IF e.type = "object" /\ "lines" \in DOMAIN e.fields THEN <<e.fields.lines>>
    ELSE IF e.type = "object" /\ "metadata" \in DOMAIN e.fields
            /\ "lines" \in DOMAIN e.fields.metadata
    THEN <<e.fields.metadata.lines>>
    ELSE IF TextOf(e) # <<>> THEN <<Lines(1, LineCount(TextOf(e)))>>
    ELSE <<>>

Normalized(usage) ==
    /\ call.fn = "extractDocsFromCustomApi"
    /\ call.returned
    /\ call.out.ok
    /\ this.usage = usage

\* C4 (as amended): in perPage mode a normalization that returns emits one page
\* per array entry; for a PDF filename page n carries loc.pageNumber = n (also
\* when the entry's own metadata has a loc key) and loc.lines taken from the
\* entry, else from the entry's metadata, else computed from a non-empty text;
\* a page whose text is empty and that is given no line range has no loc.lines.
C4_PerPageLocation ==
    Normalized(PerPage) =>
        /\ Len(call.out.docs) = Len(call.result)
        /\ \A n \in 1..Len(call.result) :
             LET doc == call.out.docs[n]
                 e == call.result[n]
             IN  /\ doc.pageContent = TextOf(e)
                 /\ IF NamedPdf(call.filename)
                    THEN /\ "loc" \in DOMAIN doc.metadata
                         /\ doc.metadata.loc.pageNumber = n
                         /\ IF EntryLines(e) = <<>>
                            THEN "lines" \notin DOMAIN doc.metadata.loc
                            ELSE /\ "lines" \in DOMAIN doc.metadata.loc
                                 /\ doc.metadata.loc.lines = EntryLines(e)[1]
                    ELSE e.type = "string" => "loc" \notin DOMAIN doc.metadata

\* C4's case: a PDF answer with an empty page and a page whose metadata has loc.
C4_Witness ==
    /\ Normalized(PerPage)
    /\ NamedPdf(call.filename)
    /\ Len(call.result) = 2
    /\ call.result[1] = Str(<<>>)
    /\ call.result[2].type = "object"
    /\ "metadata" \in DOMAIN call.result[2].fields
    /\ "loc" \in DOMAIN call.result[2].fields.metadata
    /\ call.out.docs[2].metadata.loc = [pageNumber |-> 2, lines |-> Lines(1, 1)]

\* C4 as first stated: every page of a PDF carries a line range, empty pages too.
C4_EveryPageHasLines ==
    (Normalized(PerPage) /\ NamedPdf(call.filename)) =>
        \A n \in 1..Len(call.out.docs) :
            /\ call.out.docs[n].metadata.loc.pageNumber = n
            /\ "lines" \in DOMAIN call.out.docs[n].metadata.loc

RECURSIVE MarkedText(_, _)
\* The first n entries' texts with the page-break marker before all but the first.
MarkedText(result, n) ==
    IF n = 0 THEN <<>>
    ELSE IF n = 1 THEN TextOf(result[1])
    ELSE MarkedText(result, n - 1)
             \o <<NL, NL, "<PAGE_BREAK>", ToString(n), "</PAGE_BREAK>", NL, NL>>
             \o TextOf(result[n])

MarkerNumbers(text) ==
    { text[n + 1] : n \in { m \in 1..(Len(text) - 1) : text[m] = "<PAGE_BREAK>" } }

\* C9: in perFile mode the n entries of an answer give one document: the texts
\* in array order joined by blank lines, entry k > 1 preceded by
\* <PAGE_BREAK>k</PAGE_BREAK> (markers 2..n, n - 1 of them), with source and
\* custom_ocr metadata and only the first entry's metadata merged on top.
C9_PerFileContent ==
    Normalized(PerFile) =>
        LET n == Len(call.result)
            doc == call.out.docs[1]
            first == IF n > 0 /\ call.result[1].type = "object"
                        /\ "metadata" \in DOMAIN call.result[1].fields
                     THEN call.result[1].fields.metadata
                     ELSE <<>>
        IN  /\ Len(call.out.docs) = 1
            /\ doc.pageContent = MarkedText(call.result, n)
            /\ MarkerNumbers(doc.pageContent) = { ToString(k) : k \in 2..n }
            /\ Cardinality({ m \in 1..Len(doc.pageContent) :
                               doc.pageContent[m] = "<PAGE_BREAK>" })
                 = (IF n = 0 THEN 0 ELSE n - 1)
            /\ DOMAIN doc.metadata = {"source", "custom_ocr"} \cup DOMAIN first
            /\ \A k \in DOMAIN first : doc.metadata[k] = first[k]
            /\ "source" \notin DOMAIN first => doc.metadata.source = call.filename
            /\ "custom_ocr" \notin DOMAIN first => doc.metadata.custom_ocr = TRUE

\* C9's case: the answer ["page one", "one\ntwo"] in perFile mode.
C9_Witness ==
    /\ Normalized(PerFile)
    /\ call.result = <<Str(<<"page", "one">>), Str(PageText)>>
    /\ call.out.docs[1].pageContent =
         <<"page", "one", NL, NL, "<PAGE_BREAK>", "2", "</PAGE_BREAK>", NL, NL,
           "one", NL, "two">>

\* One step of invocation i after the call.
Step(i) ==
    \/ CredentialReturns(i)
    \/ StorageReturns(i)
    \/ OcrResponds(i)
    \/ LoaderReturns(i)
    \/ SplitterReturns(i)

NonEmptyFiles(r) == { k \in 1..Len(r.files) : r.files[k] # <<>> }

Completed(r, k) ==
    \E n \in 1..Len(r.log) : r.log[n].op = "completed" /\ r.log[n].file = k

CarriesValue(v) == v.type = "string" /\ Len(v.value) > 0

NoUploadValue(nodeData) == \A f \in FieldNames : ~CarriesValue(nodeData.upload[f])

\* The configuration asks for the remote strategy: a URL and an API key.
RemoteConfigured(nodeData) ==
    /\ CarriesValue(nodeData.customOcrApiUrl)
    /\ CarriesValue(nodeData.credentialKey)

\* C1: an invocation with no value under any upload field fails with
\* 'File upload is required'; no file is fetched, no strategy runs, nothing
\* is returned.
C1_NoUploadFails ==
    \A i \in Invs :
        (inv[i].pc # "idle" /\ NoUploadValue(inv[i].nodeData)) =>
            /\ inv[i].pc \in {"getCredentialData", "rejected"}
            /\ inv[i].pc = "rejected" =>
                 inv[i].ret = [kind |-> "error", message |-> <<"File upload is required">>]
            /\ inv[i].log = <<>>
            /\ inv[i].raw = <<>>
            /\ inv[i].docs = <<>>

\* C1's case: every upload field is an empty string, a remote strategy configured.
C1_Witness ==
    /\ inv[1].pc = "rejected"
    /\ \A f \in FieldNames : inv[1].nodeData.upload[f] = Str(<<>>)
    /\ RemoteConfigured(inv[1].nodeData)

\* C2: a failure ends the invocation with an error: nothing is returned, no
\* step follows, no later file is touched; and a return means every non-empty
\* file was extracted to the end.
C2_FailureAborts ==
    \A i \in Invs :
        LET r == inv[i]
        IN  /\ r.pc = "rejected" =>
                 /\ r.ret.kind = "error"
                 /\ ~ENABLED Step(i)
                 /\ \A n \in 1..Len(r.log) : r.log[n].file <= r.pos
            /\ r.pc = "returned" =>
                 /\ r.ret.kind \in {"document", "text"}
                 /\ \A k \in NonEmptyFiles(r) : Completed(r, k)

\* C2's case: the second file fails after the first one gave documents.
C2_Witness ==
    /\ inv[1].pc = "rejected"
    /\ inv[1].pos = 2
    /\ Len(inv[1].docs) > 0
    /\ ~Completed(inv[1], 2)

\* The remote strategy normalized file k in the given usage mode.
NormalizedAs(r, k, usage) ==
    \E n \in 1..Len(r.log) :
        r.log[n] = Event("extractDocsFromCustomApi", k, usage)

\* C3 (as amended): when the remote strategy extracts every file in perFile
\* mode and no text-splitter is applied, an invocation that returns holds one
\* document per non-empty resolved file, whatever the length of each OCR answer.
C3_OnePerFileRemoteUnsplit ==
    \A i \in Invs :
        LET r == inv[i]
        IN  (/\ r.pc = "returned"
             /\ \A k \in NonEmptyFiles(r) : NormalizedAs(r, k, PerFile)
             /\ \A n \in 1..Len(r.log) : r.log[n].op # "splitDocuments") =>
                Len(r.docs) = Cardinality(NonEmptyFiles(r))

\* C3's case: two files, one of them answered with an empty array.
C3_Witness ==
    /\ inv[1].pc = "returned"
    /\ inv[1].nodeData.usage = PerFile
    /\ RemoteConfigured(inv[1].nodeData)
    /\ inv[1].nodeData.textSplitter = Undefined
    /\ Cardinality(NonEmptyFiles(inv[1])) = 2
    /\ inv[1].docs[1].pageContent = <<>>
    /\ inv[1].docs[2].pageContent # <<>>

\* C3 as first stated: in perFile mode one document per file, whichever
\* strategy runs and whether or not a text-splitter is configured.
C3_OnePerFileAlways ==
    \A i \in Invs :
        (inv[i].pc = "returned" /\ inv[i].nodeData.usage = PerFile) =>
            Len(inv[i].docs) = Cardinality(NonEmptyFiles(inv[i]))

Begins(e) == e.op \in {"getFileFromStorage", "postFilesToCustomApi", "extractDocs"}

Precedes(a, b) ==
    \/ a.file < b.file
    \/ a.file = b.file /\ a.unit < b.unit
    \/ a.file = b.file /\ a.unit = b.unit /\ a.chunk < b.chunk

\* C5: the files are handled one after the other in resolved order (a file's
\* fetch or extraction begins only after every earlier file is complete), the
\* documents of a file precede those of the next, and the documents of one
\* file keep the order of the extraction response.
C5_SequentialInOrder ==
    \A i \in Invs :
        LET r == inv[i]
        IN  /\ Len(r.origin) = Len(r.docs)
            /\ \A a, b \in 1..Len(r.origin) : a < b => Precedes(r.origin[a], r.origin[b])
            /\ \A n \in 1..Len(r.docs) :
                 "loc" \in DOMAIN r.docs[n].metadata =>
                     r.docs[n].metadata.loc.pageNumber = r.origin[n].unit
            /\ \A a, b \in 1..Len(r.log) : a < b => r.log[a].file <= r.log[b].file
            /\ \A b \in 1..Len(r.log) :
                 Begins(r.log[b]) =>
                     \A k \in NonEmptyFiles(r) :
                         k < r.log[b].file =>
                             \E c \in 1..(b - 1) :
                                 r.log[c].op = "completed" /\ r.log[c].file = k

\* C5's case: two files with two documents each have been returned.
C5_Witness ==
    /\ inv[1].pc = "returned"
    /\ Len(inv[1].origin) = 4
    /\ inv[1].origin[2] = [file |-> 1, unit |-> 2, chunk |-> 1]
    /\ inv[1].origin[3].file = 2

OverlayOf(metadata) ==
    IF metadata.type = "object" THEN metadata.fields ELSE [tag |-> <<"x">>]

\* C6: the overlay changes metadata only: as many documents, in the same
\* order, with the same pageContent; every overlay key has the overlay's value
\* and every other key its former value; what is returned is that collection.
C6_OverlayMetadataOnly ==
    \A i \in Invs :
        LET r == inv[i]
            overlay == OverlayOf(r.nodeData.metadata)
        IN  (r.pc = "returned" /\ r.nodeData.metadata # Undefined) =>
                /\ Len(r.docs) = Len(r.merged)
                /\ r.ret.kind = "document" => r.ret.value = r.docs
                /\ \A n \in 1..Len(r.docs) :
                     /\ r.docs[n].pageContent = r.merged[n].pageContent
                     /\ DOMAIN r.docs[n] = DOMAIN r.merged[n]
                     /\ DOMAIN r.docs[n].metadata =
                          DOMAIN r.merged[n].metadata \cup DOMAIN overlay
                     /\ \A k \in DOMAIN overlay : r.docs[n].metadata[k] = overlay[k]
                     /\ \A k \in DOMAIN r.merged[n].metadata \ DOMAIN overlay :
                          r.docs[n].metadata[k] = r.merged[n].metadata[k]

\* C6's case: an overlay whose `source` collides, on a collection of 3 documents.
C6_Witness ==
    /\ inv[1].pc = "returned"
    /\ inv[1].nodeData.metadata = Obj(OverlayObject)
    /\ Len(inv[1].docs) = 3
    /\ inv[1].merged[1].metadata.source = FileKey
    /\ inv[1].docs[1].metadata.source = <<"mine">>
    /\ inv[1].docs[3].metadata.tag = <<"x">>

LastEvent(r) == r.log[Len(r.log)]

\* The remote strategy failed for the current file.
RemoteFailed(r) ==
    /\ r.pc = "rejected"
    /\ r.log # <<>>
    /\ LastEvent(r).op \in {"postFilesToCustomApi", "extractDocsFromCustomApi"}

\* C8: every failure of the remote strategy is one error, 'Failed to process
\* file with Custom OCR API: ' followed by the original message (status and
\* body for a non-success status, 'expected array of pages' for a body that is
\* no array), and the file gives no document.
C8_RemoteOcrError ==
    \A i \in Invs :
        LET r == inv[i]
            message == r.ret.message
        IN  RemoteFailed(r) =>
                /\ r.ret.kind = "error"
                /\ Len(message) >= 2
                /\ message[1] = "Failed to process file with Custom OCR API: "
                /\ r.answer.kind = "throw" => Tail(message) = r.answer.message
                /\ (r.answer.kind = "http" /\ ~r.answer.ok) =>
                     /\ message[2] = "Custom OCR API request failed with status "
                     /\ message[3] = r.answer.status
                     /\ SubSeq(message, 5, Len(message)) = r.answer.text
                /\ (r.answer.kind = "http" /\ r.answer.ok /\ r.answer.json.kind = "object") =>
                     Tail(message) =
                         <<"Invalid response format from Custom OCR API: expected array of pages">>
                /\ \A n \in 1..Len(r.origin) : r.origin[n].file # r.pos

\* C8's case: the answer is an array with a null entry.
C8_Witness ==
    /\ RemoteFailed(inv[1])
    /\ inv[1].answer.kind = "http"
    /\ inv[1].answer.ok
    /\ inv[1].answer.json = [kind |-> "array", value |-> <<Str(PageText), Null>>]
    /\ inv[1].ret.message =
         <<"Failed to process file with Custom OCR API: ", "TypeError">>

Max(S) == CHOOSE x \in S : \A y \in S : y <= x
Min(S) == CHOOSE x \in S : \A y \in S : x <= y
Positions(e, token) == { n \in 1..Len(e) : e[n] = token }
NonEmpty(e) == e # <<>>

\* What an inline element resolves to: the text after the last comma names
\* the file (between its first and its second colon), the text between the
\* last two commas (from the start when there is one comma) is the payload.
InlineExpected(e) ==
    LET commas == Positions(e, ",")
        lastComma == IF commas = {} THEN 0 ELSE Max(commas)
        prevComma == IF Cardinality(commas) <= 1 THEN 0 ELSE Max(commas \ {lastComma})
        lastPart == SubSeq(e, lastComma + 1, Len(e))
        colons == Positions(lastPart, ":")
        first == Min(colons)
        second == IF colons \ {first} = {} THEN Len(lastPart) + 1
                  ELSE Min(colons \ {first})
    IN  [filename |-> IF colons = {} THEN <<>> ELSE SubSeq(lastPart, first + 1, second - 1),
         bytes |-> IF commas = {} THEN <<>>
                   ELSE Base64Decode(SubSeq(e, prevComma + 1, lastComma - 1))]

Inline(r) == r.pc \notin {"idle", "getCredentialData"} /\ ~r.storage

\* The non-empty elements the loop has reached, in list order.
Reached(r) == SelectSeq(SubSeq(r.files, 1, r.pos), NonEmpty)

C7_OwnConfiguration ==
    \A i \in Invs :
        \A n \in 1..Len(inv[i].log) :
            LET e == inv[i].log[n]
                nodeData == inv[i].nodeData
            IN  /\ e.op = "postFilesToCustomApi" => RemoteConfigured(nodeData)
                /\ e.op = "extractDocs" =>
                     ~RemoteConfigured(nodeData) /\ e.usage = nodeData.usage
                /\ e.op = "extractDocsFromCustomApi" => e.usage = nodeData.usage

====
